---- MODULE Spec2Model ----
(***************************************************************************)
(* Model of prettylog: the memory-bounded buffer pool (pool.go), the      *)
(* locked sink (write_locker.go), the reference fragment (writer.go) and  *)
(* the per-record pipeline Handler.Handle (handler.go).                   *)
(***************************************************************************)
EXTENDS Integers, Sequences, FiniteSets, TLC

(* ------------------------------ bounds -------------------------------- *)
NProcs == 2
MaxBufs == 3
MaxLen == 2
GrowSlack == 1
MaxCeiling == 3
MaxCalls == 2
MaxWriters == 3
MaxOpts == 2
NHandlers == 2

Procs == 1..NProcs
Bufs == 1..MaxBufs
\* the nil buffer and the nil goroutine
NoBuf == MaxBufs + 1
NoProc == NProcs + 1

\* uint64 arithmetic of atomic.Uint64, at a reduced width
UintMod == 2^10

\* the ceilings a pool is constructed with
PoolSizes == (MaxCeiling - 1)..MaxCeiling

VARIABLES
    maxMemoryBufferStorage,     \* limitedPool.maxMemoryBufferStorage
    currentMemoryBufferUsage,   \* limitedPool.currentMemoryBufferUsage
    idle,                       \* the buffers held by limitedPool.pool (sync.Pool)
    bufCap,                     \* bytes.Buffer: Cap() of every buffer
    bufData,                    \* bytes.Buffer: unread content of every buffer
    owner,                      \* where a buffer is: "free" (unallocated or garbage), "pool", "out", "dropped"
    pc,                         \* position of every caller
    buf,                        \* the local variable buf of every caller
    before,                     \* tracked usage when the caller's current call started
    writers,                    \* Handler.writers: the registered fragments, in registration order
    color,                      \* Handler.color
    keyColoredLen,              \* LevelWriter.keyColoredLen of the registered level fragment
    lock,                       \* writeLocker.mu: the goroutine holding it, or NoProc
    stream,                     \* the bytes the sink has received, each tagged with its Handle call
    written,                    \* the arguments of the Write calls on the sink, in call order, with call and record
    calls,                      \* number of Handle calls started
    path,                       \* Handle: "json" (serializer), "pretty" (fragments); "none" outside Handle
    record,                     \* Handle: the record (has a time, has a caller frame)
    callId,                     \* Handle: number of the call a goroutine is executing
    idx,                        \* Handle: index of the next fragment of the current pass
    kfl,                        \* Handle: info.KeyFieldLength
    log,                        \* Handle: the KeyLen and Write invocations made so far
    fragBytes,                  \* Handle: bytes appended by the fragments' Write so far
    copyPos,                    \* Write: bytes of the argument the sink has consumed
    writeCalls,                 \* Handle: Write calls made on the sink
    sinkErr,                    \* Handle: the error the sink's Write returned
    err,                        \* Handle: the returned error
    gets,                       \* Handle: buffers acquired from the pool
    puts,                       \* Handle: buffers released to the pool
    opts,                       \* New: number of options applied to the handler
    poolArg,                    \* the argument newLimitedPool was last called with
    sinks,                      \* the io.Writer objects that exist, by identity
    writer,                     \* Handler.writer
    wrapArg,                    \* the argument WrapWriteLocker was last called with
    without,                    \* the fragments WithoutWriters was last called with
    prevWriters,                \* Handler.writers before the last option that edits it
    wlArg,                      \* writeLocker.Write: the argument p of a direct caller's last call
    wArg,                       \* the argument the underlying writer's Write received in that call
    wResult,                    \* what the underlying writer's Write returned in that call
    wlResult,                   \* what writeLocker.Write returned in that call
    wlWrites,                   \* Write calls a direct caller has made since it locked
    DefaultWriters,             \* new.go: the package-level array DefaultWriters
    handlers,                   \* the handlers New has made: their writers slice
    lastOpt                     \* the option applied last, and the handler it was applied to

poolVars == <<maxMemoryBufferStorage, currentMemoryBufferUsage, idle, bufCap, bufData, owner>>
callVars == <<pc, buf, before>>
pkgVars == <<DefaultWriters, handlers, lastOpt>>
optVars == <<opts, poolArg, sinks, writer, wrapArg, without, prevWriters, pkgVars>>
lockerVars == <<wlArg, wArg, wResult, wlResult, wlWrites>>
confVars == <<writers, color, keyColoredLen, optVars, lockerVars>>
sinkVars == <<lock, stream, written>>
handleVars == <<calls, path, record, callId, idx, kfl, log, fragBytes, copyPos, writeCalls, sinkErr, err, gets, puts>>
vars == <<poolVars, callVars, confVars, sinkVars, handleVars>>

(* ----------------------------- helpers -------------------------------- *)
RECURSIVE SumCap(_, _)
SumCap(S, c) ==
    IF S = {} THEN 0
    ELSE LET b == CHOOSE x \in S : TRUE IN c[b] + SumCap(S \ {b}, c)

\* sum of the capacities of the buffers idle in the pool
IdleCapacity == SumCap(idle, bufCap)

\* bytes.Buffer growth: a write that does not fit reallocates to at least the
\* new length; the allocator may round up
GrowCaps(c, n) == IF n <= c THEN {c} ELSE n..(n + GrowSlack)

(* ------------------------------- pool --------------------------------- *)
\* caller p holds buffer b: from sync.Pool.Get handing it out until Put has
\* dropped it or handed it to sync.Pool.Put
Holds(p, b) == buf[p] = b /\ pc[p] # "putDone"

\* the callers that hold buffer b
Holders(b) == {p \in Procs : Holds(p, b)}

\* pool.go: const defaultLimitedPoolSize = 16 * 1024 * 1024
defaultLimitedPoolSize == 16777216

\* variant of newLimitedPool: only a negative size selects the default
newLimitedPoolNegative(n) == IF n < 0 THEN defaultLimitedPoolSize ELSE n

\* newLimitedPool: the effective ceiling
newLimitedPool(n) == IF n <= 0 THEN defaultLimitedPoolSize ELSE n

\* variant of PutDrops: a buffer that fills the pool exactly to the ceiling is dropped
PutDropsAtCeiling(u, c) == (u + c) % UintMod >= maxMemoryBufferStorage

\* variant of PutDrops: only the buffer's own capacity is compared with the ceiling
PutDropsOwnCap(u, c) == c > maxMemoryBufferStorage

\* Put, line 33: Load()+bufCap > maxMemoryBufferStorage
PutDrops(u, c) == (u + c) % UintMod > maxMemoryBufferStorage

\* a caller enters Get
CallGet(p) ==
    /\ pc[p] = "idle"
    /\ pc' = [pc EXCEPT ![p] = "getPool"]
    /\ before' = [before EXCEPT ![p] = currentMemoryBufferUsage]
    /\ UNCHANGED <<poolVars, buf>>
    /\ UNCHANGED <<confVars, sinkVars, handleVars>>

\* variant of GetPool: a pooled buffer handed out stays in the pool
GetPoolKeepsIdle(p) ==
    /\ pc[p] = "getPool"
    /\ \/ \E b \in idle :
            /\ owner' = [owner EXCEPT ![b] = "out"]
            /\ buf' = [buf EXCEPT ![p] = b]
            /\ UNCHANGED <<idle, bufCap, bufData>>
       \/ \E b \in Bufs :
            /\ owner[b] = "free"
            /\ \A x \in Bufs : owner[x] = "free" => b <= x
            /\ owner' = [owner EXCEPT ![b] = "out"]
            /\ bufCap' = [bufCap EXCEPT ![b] = 0]
            /\ bufData' = [bufData EXCEPT ![b] = <<>>]
            /\ buf' = [buf EXCEPT ![p] = b]
            /\ UNCHANGED idle
    /\ pc' = [pc EXCEPT ![p] = "getSub"]
    /\ UNCHANGED <<maxMemoryBufferStorage, currentMemoryBufferUsage, before>>
    /\ UNCHANGED <<confVars, sinkVars, handleVars>>

\* Get, line 25: sync.Pool.Get hands out a pooled buffer, or a new empty one
GetPool(p) ==
    /\ pc[p] = "getPool"
    /\ \/ \E b \in idle :
            /\ idle' = idle \ {b}
            /\ owner' = [owner EXCEPT ![b] = "out"]
            /\ buf' = [buf EXCEPT ![p] = b]
            /\ UNCHANGED <<bufCap, bufData>>
       \/ \E b \in Bufs :
            /\ owner[b] = "free"
            /\ \A x \in Bufs : owner[x] = "free" => b <= x
            /\ owner' = [owner EXCEPT ![b] = "out"]
            /\ bufCap' = [bufCap EXCEPT ![b] = 0]
            /\ bufData' = [bufData EXCEPT ![b] = <<>>]
            /\ buf' = [buf EXCEPT ![p] = b]
            /\ UNCHANGED idle
    /\ pc' = [pc EXCEPT ![p] = "getSub"]
    /\ UNCHANGED <<maxMemoryBufferStorage, currentMemoryBufferUsage, before>>
    /\ UNCHANGED <<confVars, sinkVars, handleVars>>

\* variant of GetSub: the usage is left as it is
GetSubNothing(p) ==
    /\ pc[p] = "getSub"
    /\ pc' = [pc EXCEPT ![p] = "getDone"]
    /\ UNCHANGED <<poolVars, buf, before>>
    /\ UNCHANGED <<confVars, sinkVars, handleVars>>

\* Get, line 26: Add(-uint64(buf.Cap()))
GetSub(p) ==
    /\ pc[p] = "getSub"
    /\ currentMemoryBufferUsage' = (currentMemoryBufferUsage - bufCap[buf[p]]) % UintMod
    /\ pc' = [pc EXCEPT ![p] = "getDone"]
    /\ UNCHANGED <<maxMemoryBufferStorage, idle, bufCap, bufData, owner, buf, before>>
    /\ UNCHANGED <<confVars, sinkVars, handleVars>>

\* Get returns buf to its caller
GetReturn(p) ==
    /\ pc[p] = "getDone"
    /\ path[p] = "none"
    /\ pc' = [pc EXCEPT ![p] = "held"]
    /\ before' = [before EXCEPT ![p] = 0]
    /\ UNCHANGED <<poolVars, buf>>
    /\ UNCHANGED <<confVars, sinkVars, handleVars>>

\* the caller writes one byte into the buffer it holds
CallerWrite(p) ==
    /\ pc[p] = "held"
    /\ Len(bufData[buf[p]]) < MaxLen
    /\ bufData' = [bufData EXCEPT ![buf[p]] = Append(@, "x")]
    /\ \E c \in GrowCaps(bufCap[buf[p]], Len(bufData[buf[p]]) + 1) :
            bufCap' = [bufCap EXCEPT ![buf[p]] = c]
    /\ UNCHANGED <<maxMemoryBufferStorage, currentMemoryBufferUsage, idle, owner, callVars>>
    /\ UNCHANGED <<confVars, sinkVars, handleVars>>

\* a caller enters Put with the buffer it holds
CallPut(p) ==
    /\ pc[p] = "held"
    /\ pc' = [pc EXCEPT ![p] = "putLoad"]
    /\ before' = [before EXCEPT ![p] = currentMemoryBufferUsage]
    /\ UNCHANGED <<poolVars, buf>>
    /\ UNCHANGED <<confVars, sinkVars, handleVars>>

\* variant of PutLoad: the buffer keeps its content
PutLoadNoReset(p) ==
    /\ pc[p] = "putLoad"
    /\ IF PutDrops(currentMemoryBufferUsage, bufCap[buf[p]])
       THEN /\ pc' = [pc EXCEPT ![p] = "putDone"]
            /\ owner' = [owner EXCEPT ![buf[p]] = "dropped"]
       ELSE /\ pc' = [pc EXCEPT ![p] = "putAdd"]
            /\ UNCHANGED owner
    /\ UNCHANGED <<maxMemoryBufferStorage, currentMemoryBufferUsage, idle, bufCap, bufData, buf, before>>
    /\ UNCHANGED <<confVars, sinkVars, handleVars>>

\* Put, lines 31-36: Reset, Load, compare; a buffer over the ceiling is dropped
PutLoad(p) ==
    /\ pc[p] = "putLoad"
    /\ bufData' = [bufData EXCEPT ![buf[p]] = <<>>]
    /\ IF PutDrops(currentMemoryBufferUsage, bufCap[buf[p]])
       THEN /\ pc' = [pc EXCEPT ![p] = "putDone"]
            /\ owner' = [owner EXCEPT ![buf[p]] = "dropped"]
       ELSE /\ pc' = [pc EXCEPT ![p] = "putAdd"]
            /\ UNCHANGED owner
    /\ UNCHANGED <<maxMemoryBufferStorage, currentMemoryBufferUsage, idle, bufCap, buf, before>>
    /\ UNCHANGED <<confVars, sinkVars, handleVars>>

\* variant of PutAdd: the length of the (just reset) buffer is added, not its capacity
PutAddLen(p) ==
    /\ pc[p] = "putAdd"
    /\ currentMemoryBufferUsage' = (currentMemoryBufferUsage + Len(bufData[buf[p]])) % UintMod
    /\ pc' = [pc EXCEPT ![p] = "putPool"]
    /\ UNCHANGED <<maxMemoryBufferStorage, idle, bufCap, bufData, owner, buf, before>>
    /\ UNCHANGED <<confVars, sinkVars, handleVars>>

\* Put, line 37: Add(bufCap)
PutAdd(p) ==
    /\ pc[p] = "putAdd"
    /\ currentMemoryBufferUsage' = (currentMemoryBufferUsage + bufCap[buf[p]]) % UintMod
    /\ pc' = [pc EXCEPT ![p] = "putPool"]
    /\ UNCHANGED <<maxMemoryBufferStorage, idle, bufCap, bufData, owner, buf, before>>
    /\ UNCHANGED <<confVars, sinkVars, handleVars>>

\* Put, line 38: l.pool.Put(buf)
PutPool(p) ==
    /\ pc[p] = "putPool"
    /\ idle' = idle \cup {buf[p]}
    /\ owner' = [owner EXCEPT ![buf[p]] = "pool"]
    /\ pc' = [pc EXCEPT ![p] = "putDone"]
    /\ UNCHANGED <<maxMemoryBufferStorage, currentMemoryBufferUsage, bufCap, bufData, buf, before>>
    /\ UNCHANGED <<confVars, sinkVars, handleVars>>

\* Put returns; the caller forgets the buffer, a dropped one becomes garbage
PutReturn(p) ==
    /\ pc[p] = "putDone"
    /\ path[p] = "none"
    /\ pc' = [pc EXCEPT ![p] = "idle"]
    /\ buf' = [buf EXCEPT ![p] = NoBuf]
    /\ owner' = [b \in Bufs |-> IF b = buf[p] /\ owner[b] = "dropped" THEN "free" ELSE owner[b]]
    /\ bufCap' = [b \in Bufs |-> IF b = buf[p] /\ owner[b] = "dropped" THEN 0 ELSE bufCap[b]]
    /\ before' = [before EXCEPT ![p] = 0]
    /\ UNCHANGED <<maxMemoryBufferStorage, currentMemoryBufferUsage, idle, bufData>>
    /\ UNCHANGED <<confVars, sinkVars, handleVars>>

\* sync.Pool may release a pooled object at any time (garbage collection);
\* the object is reclaimed once the Put that pooled it has returned
PoolGC ==
    /\ \E b \in idle :
        /\ \A p \in Procs : buf[p] # b
        /\ idle' = idle \ {b}
        /\ owner' = [owner EXCEPT ![b] = "free"]
        /\ bufCap' = [bufCap EXCEPT ![b] = 0]
    /\ UNCHANGED <<maxMemoryBufferStorage, currentMemoryBufferUsage, bufData, callVars>>
    /\ UNCHANGED <<confVars, sinkVars, handleVars>>

(* ----------------------------- fragments ------------------------------ *)
\* Texts are sequences of bytes; an ANSI escape sequence counts as one byte.

\* styler.go: PlainStyler, the colored stylers (escape sequences around the
\* text), and the stylers of writer_test.go (text + "!", "k:" + text)
Style(st, s) ==
    CASE st = "plain" -> s
      [] st = "colored" -> <<"ESC[1m">> \o s \o <<"ESC[0m">>
      [] st = "bang" -> s \o <<"!">>
      [] st = "k:" -> <<"k", ":">> \o s

\* strings.Repeat(" ", n) for n >= 0
Repeat(ch, n) == [i \in 1..n |-> ch]

Frag(t, k, v, ks, vs, n) ==
    [type |-> t, key |-> k, value |-> v, keyStyler |-> ks, valueStyler |-> vs, keyLen |-> n]

\* writer.go: UnimplementedEntryWriter
UnimplementedEntryWriter == Frag("unimplemented", <<>>, <<>>, "plain", "plain", 0)

\* handler_test.go: testWriterWithKeyLen{name, keyLen}
testWriterWithKeyLen(name, n) == Frag("test", <<>>, name, "plain", "plain", n)

\* writer.go: NewCommonWriter(valuer) with Key Static(""), KeyStyler BoldColoredStyler,
\* ValueStyler PlainStyler, followed by WithStaticKey / WithKeyColorizer
NewCommonWriter(k, v, ks) == Frag("common", k, v, ks, "plain", 0)

\* handler.go: NewCommonWriter of the RecordInfo generation
NewCommonWriter_RecordInfo(k, v, ks) == Frag("commonInfo", k, v, ks, "plain", 0)

\* handler.go: CommonWriter.KeyLen of the RecordInfo generation
CommonWriter_KeyLen_RecordInfo(w, c) ==
    IF w.key = <<>> THEN 0
    ELSE IF ~c THEN Len(Style(w.keyStyler, w.key))
    ELSE Len(w.key)

\* writer.go: CommonWriter.KeyLen
CommonWriter_KeyLen(w, c) ==
    IF w.key = <<>> THEN 0
    ELSE IF c THEN Len(Style(w.keyStyler, w.key))
    ELSE Len(w.key)

\* NewLevelWriter().WithKey(k) of the LevelWriter that memoizes its styled key width
NewLevelWriter(k) == Frag("level", k, <<"I">>, "colored", "colored", 0)

\* LevelWriter.KeyLen: the value returned when le.keyColoredLen holds memo
LevelWriter_KeyLen(w, c, memo) == IF c THEN memo ELSE Len(w.key)

\* LevelWriter.Write
LevelWriter_Write(w, data, k, c) ==
    IF ~c
    THEN data \o (IF w.key # <<>> /\ Len(data) > 0 THEN <<"\n">> ELSE <<>>)
              \o w.key \o Repeat(" ", k - Len(w.key) + 1) \o w.value
    ELSE data \o (IF w.key # <<>> THEN Style(w.keyStyler, w.key) \o <<":", " ">> ELSE <<>>)
              \o Style(w.valueStyler, w.value)

\* TimeWriter, FunctionWriter, FileLineWriter embed a *CommonWriter
Embeds(w) == w.type \in {"time", "function", "fileLine"}

\* EntryWriter.KeyLen of a fragment
KeyLen(w, c) ==
    CASE w.type = "common" -> CommonWriter_KeyLen(w, c)
      [] w.type = "commonInfo" -> CommonWriter_KeyLen_RecordInfo(w, c)
      [] Embeds(w) -> CommonWriter_KeyLen(w, c)
      [] w.type = "test" -> w.keyLen
      [] w.type = "unimplemented" -> 0

\* variant of DefaultPrefix: as its comment says, a newline for a fragment
\* without a key and a space otherwise
DefaultPrefixAsCommented(data, w) ==
    IF Len(data) = 0 THEN <<>>
    ELSE IF w.key = <<>> THEN <<"\n">>
    ELSE <<" ">>

\* writer.go: DefaultPrefix
DefaultPrefix(data, w) ==
    IF Len(data) = 0 THEN <<>>
    ELSE IF w.key # <<>> THEN <<"\n">>
    ELSE <<" ">>

\* CommonWriter.Write: the key as written (styled when colored and non-empty)
CommonWriter_Key(w, c) ==
    IF c /\ w.key # <<>> THEN Style(w.keyStyler, w.key) ELSE w.key

\* CommonWriter.Write: the value as written
CommonWriter_Value(w, c) ==
    IF c THEN Style(w.valueStyler, w.value) ELSE w.value

\* variant of PadCount: the pad is computed from the key before styling
PadCountPlainKey(w, k, c) == k - Len(w.key) + 1

\* CommonWriter.Write: the count passed to strings.Repeat
PadCount(w, k, c) == k - Len(CommonWriter_Key(w, c)) + 1

\* CommonWriter.Write, for a count that is not negative
CommonWriter_Write(w, data, k, c) ==
    data \o DefaultPrefix(data, w) \o CommonWriter_Key(w, c)
         \o Repeat(" ", PadCount(w, k, c)) \o CommonWriter_Value(w, c)

\* CommonWriter.Write up to a strings.Repeat that panics
CommonWriter_WriteAborted(w, data, c) ==
    data \o DefaultPrefix(data, w) \o CommonWriter_Key(w, c)

\* writer.go and handler.go define CommonWriter.Write alike
IsCommon(w) == w.type \in {"common", "commonInfo"}

\* strings.Repeat panics on a negative count
WritePanics(w, k, c) == IsCommon(w) /\ PadCount(w, k, c) < 0

\* EntryWriter.Write of a fragment: the buffer content afterwards
Write(w, data, k, c) ==
    CASE IsCommon(w) /\ WritePanics(w, k, c) -> CommonWriter_WriteAborted(w, data, c)
      [] IsCommon(w) /\ ~WritePanics(w, k, c) -> CommonWriter_Write(w, data, k, c)
      [] w.type = "level" -> LevelWriter_Write(w, data, k, c)
      [] w.type = "test" -> data \o w.value
      [] w.type = "unimplemented" -> data

\* a record with a time and a caller frame
FullRecord == [time |-> TRUE, frame |-> TRUE]

\* slog.Record: Time may be zero, PC may be 0 (no caller frame)
Records == [time : BOOLEAN, frame : BOOLEAN]

\* the records a handler is given: fields that none of its fragments reads
\* are not told apart
RecordsFor(ws) ==
    IF \E i \in 1..Len(ws) : Embeds(ws[i]) THEN Records ELSE {FullRecord}

\* the Valuer of a fragment: ShortFileLineFormat of a record without a frame is ":0"
Valuer(w, r) ==
    IF w.type = "fileLine" /\ ~r.frame THEN [w EXCEPT !.value = <<":", "0">>] ELSE w

\* TimeWriter.Write returns for a zero time, FunctionWriter.Write for a nil
\* Frame.Func; FileLineWriter has no Write of its own
FragmentSkips(w, r) ==
    \/ w.type = "time" /\ ~r.time
    \/ w.type = "function" /\ ~r.frame

\* the prefix a fragment's Write puts before its key (cw.Prefix is DefaultPrefix)
PrefixWritten(w, r, data) ==
    IF (IsCommon(w) \/ Embeds(w)) /\ ~FragmentSkips(w, r) THEN DefaultPrefix(data, w) ELSE <<>>

\* Write of a fragment for record r: the buffer content afterwards
WriteRecord(w, r, data, k, c) ==
    IF Embeds(w)
    THEN IF FragmentSkips(w, r) THEN data
         ELSE CommonWriter_Write(Valuer(w, r), data, k, c)
    ELSE Write(w, data, k, c)

\* CommonWriter.WithValueColorizer
WithValueColorizer(w, st) == [w EXCEPT !.valueStyler = st]

\* writer_level.go: DefaultLevelWriter (no key, the level as value)
DefaultLevelWriter == WithValueColorizer(NewCommonWriter(<<>>, <<"I">>, "colored"), "colored")

\* writer_message.go: DefaultMessageWriter (no key, the message as value)
DefaultMessageWriter == WithValueColorizer(NewCommonWriter(<<>>, <<"m">>, "colored"), "colored")

\* writer_time.go: DefaultTimeWriter, key "Time"
DefaultTimeWriter == Frag("time", <<"T", "i">>, <<"9">>, "colored", "plain", 0)

\* writer_function.go: DefaultFunctionWrtier, key "Function"
DefaultFunctionWrtier == Frag("function", <<"F", "u", "n">>, <<"f">>, "colored", "plain", 0)

\* writer_file_line.go: DefaultFileLineWriter, key "File"
DefaultFileLineWriter == Frag("fileLine", <<"F", "i">>, <<"a", ":", "7">>, "colored", "plain", 0)

\* the bytes of its key a fragment's Write appends
KeyBytes(w, c) == IF IsCommon(w) THEN Len(CommonWriter_Key(w, c)) ELSE 0

Max(a, b) == IF a >= b THEN a ELSE b

(* ------------------------------ Handle -------------------------------- *)
\* the errors the underlying writer may return
SinkErrors == {"EIO", "ENOSPC"}

\* what a serializer writes for a record
JSONText == <<"{", "}">>

\* the buffer of goroutine p
Data(p) == bufData[buf[p]]

\* Handle, lines 63-64: buf := ha.pool.Get(); defer ha.pool.Put(buf)
HandleBegin(p) ==
    /\ pc[p] = "idle"
    /\ calls < MaxCalls
    /\ calls' = calls + 1
    /\ callId' = [callId EXCEPT ![p] = calls + 1]
    /\ \E m \in {"json", "pretty"} : path' = [path EXCEPT ![p] = m]
    /\ \E r \in RecordsFor(writers) : record' = [record EXCEPT ![p] = r]
    /\ pc' = [pc EXCEPT ![p] = "getPool"]
    /\ UNCHANGED <<poolVars, buf, before, confVars, sinkVars>>
    /\ UNCHANGED <<idx, kfl, log, fragBytes, copyPos, writeCalls, sinkErr, err, gets, puts>>

\* Handle, line 63: Get has returned; line 68: the serializer or the fragments
HandleAcquired(p) ==
    /\ pc[p] = "getDone"
    /\ path[p] # "none"
    /\ gets' = [gets EXCEPT ![p] = Append(@, buf[p])]
    /\ idx' = [idx EXCEPT ![p] = 1]
    /\ pc' = [pc EXCEPT ![p] =
                IF path[p] = "json" THEN "serialize"
                ELSE IF Len(writers) = 0 THEN "flush" ELSE "measure"]
    /\ UNCHANGED <<poolVars, buf, before, confVars, sinkVars>>
    /\ UNCHANGED <<calls, path, record, callId, kfl, log, fragBytes, copyPos, writeCalls, sinkErr, err, puts>>

\* variant of SerializeFails: the error is returned without releasing the buffer
SerializeFailsNoPut(p) ==
    /\ pc[p] = "serialize"
    /\ err' = [err EXCEPT ![p] = "ESerialize"]
    /\ pc' = [pc EXCEPT ![p] = "putDone"]
    /\ UNCHANGED <<poolVars, buf, before, confVars, sinkVars>>
    /\ UNCHANGED <<calls, path, record, callId, idx, kfl, log, fragBytes, copyPos, writeCalls, sinkErr, gets, puts>>

\* Handle, lines 70-72: serializer.Handle fails; return err
SerializeFails(p) ==
    /\ pc[p] = "serialize"
    /\ err' = [err EXCEPT ![p] = "ESerialize"]
    /\ pc' = [pc EXCEPT ![p] = "deferPut"]
    /\ UNCHANGED <<poolVars, buf, before, confVars, sinkVars>>
    /\ UNCHANGED <<calls, path, record, callId, idx, kfl, log, fragBytes, copyPos, writeCalls, sinkErr, gets, puts>>

\* Handle, lines 69-70: serializer.Handle writes the record into buf
SerializeOK(p) ==
    /\ pc[p] = "serialize"
    /\ bufData' = [bufData EXCEPT ![buf[p]] = @ \o JSONText]
    /\ \E c \in GrowCaps(bufCap[buf[p]], Len(Data(p)) + Len(JSONText)) :
            bufCap' = [bufCap EXCEPT ![buf[p]] = c]
    /\ pc' = [pc EXCEPT ![p] = "lock"]
    /\ UNCHANGED <<maxMemoryBufferStorage, currentMemoryBufferUsage, idle, owner>>
    /\ UNCHANGED <<buf, before, confVars, sinkVars, handleVars>>

\* variant of NextKeyFieldLength: the last width replaces the width seen so far
LastKeyFieldLength(k, n) == n

\* pass 1: the maximum of the widths observed so far
NextKeyFieldLength(k, n) == Max(k, n)

\* pass 1: KeyLen of the next registered fragment. LevelWriter.KeyLen with
\* color reads le.keyColoredLen and, having read 0, stores the styled key
\* width in a second step, with no synchronization between the two
Measure(p) ==
    /\ pc[p] \in {"measure", "measureStore"}
    /\ LET w == writers[idx[p]] IN
        IF w.type = "level" /\ color /\ pc[p] = "measure" /\ keyColoredLen = 0
        THEN /\ pc' = [pc EXCEPT ![p] = "measureStore"]
             /\ UNCHANGED <<keyColoredLen, kfl, log, idx>>
        ELSE LET memo == IF pc[p] = "measureStore"
                         THEN Len(Style(w.keyStyler, w.key)) ELSE keyColoredLen
                 n == IF w.type = "level" THEN LevelWriter_KeyLen(w, color, memo)
                      ELSE KeyLen(w, color)
             IN
                /\ keyColoredLen' = memo
                /\ kfl' = [kfl EXCEPT ![p] = NextKeyFieldLength(@, n)]
                /\ log' = [log EXCEPT ![p] =
                            Append(@, [op |-> "KeyLen", i |-> idx[p], n |-> n, keyBytes |-> 0,
                                       prefix |-> <<>>, wrote |-> 0, out |-> <<>>])]
                /\ IF idx[p] = Len(writers)
                   THEN /\ pc' = [pc EXCEPT ![p] = "render"]
                        /\ idx' = [idx EXCEPT ![p] = 1]
                   ELSE /\ pc' = [pc EXCEPT ![p] = "measure"]
                        /\ idx' = [idx EXCEPT ![p] = @ + 1]
    /\ UNCHANGED <<poolVars, buf, before, writers, color, optVars, lockerVars, sinkVars>>
    /\ UNCHANGED <<calls, path, record, callId, fragBytes, copyPos, writeCalls, sinkErr, err, gets, puts>>

\* pass 2: Write of the next registered fragment; a panic leaves Handle
\* through its deferred calls
Render(p) ==
    /\ pc[p] = "render"
    /\ LET w == writers[idx[p]]
           d == WriteRecord(w, record[p], Data(p), kfl[p], color)
           last == idx[p] = Len(writers)
       IN
        /\ log' = [log EXCEPT ![p] =
                    Append(@, [op |-> "Write", i |-> idx[p], n |-> kfl[p],
                               keyBytes |-> KeyBytes(w, color),
                               prefix |-> PrefixWritten(w, record[p], Data(p)),
                               wrote |-> Len(d) - Len(Data(p)),
                               out |-> SubSeq(d, Len(Data(p)) + 1, Len(d))])]
        /\ bufData' = [bufData EXCEPT ![buf[p]] = d]
        /\ \E c \in GrowCaps(bufCap[buf[p]], Len(d)) :
                bufCap' = [bufCap EXCEPT ![buf[p]] = c]
        /\ fragBytes' = [fragBytes EXCEPT ![p] = @ + Len(d) - Len(Data(p))]
        /\ err' = [err EXCEPT ![p] = IF WritePanics(w, kfl[p], color) THEN "panic" ELSE @]
        /\ pc' = [pc EXCEPT ![p] =
                    IF WritePanics(w, kfl[p], color) THEN "deferPut"
                    ELSE IF last THEN "flush" ELSE @]
        /\ idx' = [idx EXCEPT ![p] = IF last THEN 0 ELSE @ + 1]
    /\ UNCHANGED <<maxMemoryBufferStorage, currentMemoryBufferUsage, idle, owner>>
    /\ UNCHANGED <<buf, before, confVars, sinkVars>>
    /\ UNCHANGED <<calls, path, record, callId, kfl, copyPos, writeCalls, sinkErr, gets, puts>>

\* variant of Flush: a line end is appended to whatever the fragments wrote
FlushNewline(p) ==
    /\ pc[p] = "flush"
    /\ bufData' = [bufData EXCEPT ![buf[p]] = Append(@, "\n")]
    /\ \E c \in GrowCaps(bufCap[buf[p]], Len(Data(p)) + 1) :
            bufCap' = [bufCap EXCEPT ![buf[p]] = c]
    /\ pc' = [pc EXCEPT ![p] = "lock"]
    /\ UNCHANGED <<maxMemoryBufferStorage, currentMemoryBufferUsage, idle, owner>>
    /\ UNCHANGED <<buf, before, confVars, sinkVars, handleVars>>

\* after pass 2: an empty buffer completes the call with no I/O
Flush(p) ==
    /\ pc[p] = "flush"
    /\ pc' = [pc EXCEPT ![p] = IF Len(Data(p)) = 0 THEN "deferPut" ELSE "lock"]
    /\ UNCHANGED <<poolVars, buf, before, confVars, sinkVars, handleVars>>

\* variant of Lock: the flush does not wait for the lock
LockNoWait(p) ==
    /\ pc[p] = "lock"
    /\ lock' = p
    /\ pc' = [pc EXCEPT ![p] = "copy"]
    /\ UNCHANGED <<poolVars, buf, before, confVars, stream, written, handleVars>>

\* Handle, line 73: ha.writer.Lock()  (writeLocker.Lock)
Lock(p) ==
    /\ pc[p] = "lock"
    /\ lock = NoProc
    /\ lock' = p
    /\ pc' = [pc EXCEPT ![p] = "copy"]
    /\ UNCHANGED <<poolVars, buf, before, confVars, stream, written, handleVars>>

\* variant of Copy: the buffer is handed back to the pool when the copy
\* starts, not by a deferred call that runs after it
CopyAfterRelease(p) ==
    /\ pc[p] = "copy"
    /\ IF Len(Data(p)) = 0
       THEN /\ pc' = [pc EXCEPT ![p] = "unlock"]
            /\ UNCHANGED <<written, writeCalls>>
       ELSE /\ pc' = [pc EXCEPT ![p] = "write"]
            /\ written' = Append(written, [id |-> callId[p], rec |-> <<path[p], record[p]>>, data |-> Data(p)])
            /\ writeCalls' = [writeCalls EXCEPT ![p] = @ + 1]
    /\ idle' = idle \cup {buf[p]}
    /\ owner' = [owner EXCEPT ![buf[p]] = "pool"]
    /\ UNCHANGED <<maxMemoryBufferStorage, currentMemoryBufferUsage, bufCap, bufData>>
    /\ UNCHANGED <<buf, before, confVars, lock, stream>>
    /\ UNCHANGED <<calls, path, record, callId, idx, kfl, log, fragBytes, copyPos, sinkErr, err, gets, puts>>

\* Handle, line 75: io.Copy(ha.writer, buf) is buf.WriteTo(ha.writer):
\* one Write call with the whole content, none for an empty buffer
Copy(p) ==
    /\ pc[p] = "copy"
    /\ IF Len(Data(p)) = 0
       THEN /\ pc' = [pc EXCEPT ![p] = "unlock"]
            /\ UNCHANGED <<written, writeCalls>>
       ELSE /\ pc' = [pc EXCEPT ![p] = "write"]
            /\ written' = Append(written, [id |-> callId[p], rec |-> <<path[p], record[p]>>, data |-> Data(p)])
            /\ writeCalls' = [writeCalls EXCEPT ![p] = @ + 1]
    /\ UNCHANGED <<poolVars, buf, before, confVars, lock, stream>>
    /\ UNCHANGED <<calls, path, record, callId, idx, kfl, log, fragBytes, copyPos, sinkErr, err, gets, puts>>

\* writeLocker.Write: the underlying writer receives the next byte of the argument
SinkWriteByte(p) ==
    /\ pc[p] = "write"
    /\ copyPos[p] < Len(Data(p))
    /\ stream' = Append(stream, [id |-> callId[p], ch |-> Data(p)[copyPos[p] + 1]])
    /\ copyPos' = [copyPos EXCEPT ![p] = @ + 1]
    /\ UNCHANGED <<poolVars, callVars, confVars, lock, written>>
    /\ UNCHANGED <<calls, path, record, callId, idx, kfl, log, fragBytes, writeCalls, sinkErr, err, gets, puts>>

\* what the underlying writer's Write may return for an argument of n bytes
SinkResults(n) ==
    {[n |-> n, err |-> "nil"], [n |-> n - 1, err |-> "nil"]}
        \cup {[n |-> m, err |-> e] : m \in {0, n - 1}, e \in SinkErrors}

\* variant of CopyResult: the error of the copy is not returned
CopyResultNil(n, m, e) == "nil"

\* Handle, lines 75-76: the error of io.Copy (bytes.Buffer.WriteTo) is returned
CopyResult(n, m, e) ==
    IF e # "nil" THEN e ELSE IF m # n THEN "ErrShortWrite" ELSE "nil"

\* writeLocker.Write returns; bytes.Buffer.WriteTo drops the bytes written
SinkWriteReturn(p) ==
    /\ pc[p] = "write"
    /\ copyPos[p] = Len(Data(p))
    /\ \E r \in SinkResults(Len(Data(p))) :
        /\ sinkErr' = [sinkErr EXCEPT ![p] = r.err]
        /\ err' = [err EXCEPT ![p] = CopyResult(Len(Data(p)), r.n, r.err)]
        /\ bufData' = [bufData EXCEPT ![buf[p]] = SubSeq(@, r.n + 1, Len(@))]
    /\ copyPos' = [copyPos EXCEPT ![p] = 0]
    /\ pc' = [pc EXCEPT ![p] = "unlock"]
    /\ UNCHANGED <<maxMemoryBufferStorage, currentMemoryBufferUsage, idle, bufCap, owner>>
    /\ UNCHANGED <<buf, before, confVars, sinkVars>>
    /\ UNCHANGED <<calls, path, record, callId, idx, kfl, log, fragBytes, writeCalls, gets, puts>>

\* variant of Unlock: the lock is released only after a successful copy
UnlockOnSuccess(p) ==
    /\ pc[p] = "unlock"
    /\ lock' = IF err[p] = "nil" THEN NoProc ELSE lock
    /\ pc' = [pc EXCEPT ![p] = "deferPut"]
    /\ UNCHANGED <<poolVars, buf, before, confVars, stream, written, handleVars>>

\* Handle, line 74: defer ha.writer.Unlock()  (writeLocker.Unlock)
Unlock(p) ==
    /\ pc[p] = "unlock"
    /\ lock' = NoProc
    /\ pc' = [pc EXCEPT ![p] = "deferPut"]
    /\ UNCHANGED <<poolVars, buf, before, confVars, stream, written, handleVars>>

\* Handle, line 64: the deferred ha.pool.Put(buf) starts
HandleDeferredPut(p) ==
    /\ pc[p] = "deferPut"
    /\ puts' = [puts EXCEPT ![p] = Append(@, buf[p])]
    /\ pc' = [pc EXCEPT ![p] = "putLoad"]
    /\ UNCHANGED <<poolVars, buf, before, confVars, sinkVars>>
    /\ UNCHANGED <<calls, path, record, callId, idx, kfl, log, fragBytes, copyPos, writeCalls, sinkErr, err, gets>>

\* Handle returns err to its caller; buf goes out of scope
HandleReturn(p) ==
    /\ pc[p] = "putDone"
    /\ path[p] # "none"
    /\ pc' = [pc EXCEPT ![p] = "returned"]
    /\ buf' = [buf EXCEPT ![p] = NoBuf]
    /\ owner' = [b \in Bufs |-> IF b = buf[p] /\ owner[b] \in {"dropped", "out"} /\ (\A q \in Procs \ {p} : buf[q] # b) THEN "free" ELSE owner[b]]
    /\ bufCap' = [b \in Bufs |-> IF b = buf[p] /\ owner[b] \in {"dropped", "out"} /\ (\A q \in Procs \ {p} : buf[q] # b) THEN 0 ELSE bufCap[b]]
    /\ bufData' = [b \in Bufs |-> IF b = buf[p] /\ owner[b] \in {"dropped", "out"} /\ (\A q \in Procs \ {p} : buf[q] # b) THEN <<>> ELSE bufData[b]]
    /\ UNCHANGED <<maxMemoryBufferStorage, currentMemoryBufferUsage, idle>>
    /\ UNCHANGED <<before, confVars, sinkVars, handleVars>>

\* the caller has the result; the goroutine is ready for its next record
HandleExit(p) ==
    /\ pc[p] = "returned"
    /\ pc' = [pc EXCEPT ![p] = "idle"]
    /\ path' = [path EXCEPT ![p] = "none"]
    /\ record' = [record EXCEPT ![p] = FullRecord]
    /\ callId' = [callId EXCEPT ![p] = 0]
    /\ idx' = [idx EXCEPT ![p] = 0]
    /\ kfl' = [kfl EXCEPT ![p] = 0]
    /\ log' = [log EXCEPT ![p] = <<>>]
    /\ fragBytes' = [fragBytes EXCEPT ![p] = 0]
    /\ writeCalls' = [writeCalls EXCEPT ![p] = 0]
    /\ sinkErr' = [sinkErr EXCEPT ![p] = "nil"]
    /\ err' = [err EXCEPT ![p] = "nil"]
    /\ gets' = [gets EXCEPT ![p] = <<>>]
    /\ puts' = [puts EXCEPT ![p] = <<>>]
    /\ UNCHANGED <<poolVars, buf, before, confVars, sinkVars, calls, copyPos>>

(* ------------------------- handlers made by New ----------------------- *)
Handlers == 1..NHandlers

\* new.go: var DefaultWriters = [...]EntryWriter{...}, its first MaxWriters elements
DefaultWritersArray ==
    SubSeq(<<DefaultLevelWriter, DefaultMessageWriter, DefaultTimeWriter,
             DefaultFunctionWrtier, DefaultFileLineWriter>>, 1, MaxWriters)

\* a handler New has not made yet
NoHandler == [state |-> "none", len |-> 0, arr |-> <<>>, n |-> 0]

\* the backing array of the writers slice of handler h: DefaultWriters
\* itself for the slice DefaultWriters[:], or an array that append allocated
Backing(hs, dw, h) == IF hs[h].state = "shared" THEN dw ELSE hs[h].arr

\* Handler.writers of handler h
HandlerWriters(hs, dw, h) == SubSeq(Backing(hs, dw, h), 1, hs[h].len)

(* ---------------------------- write locker --------------------------- *)
\* variant of ImplementsWriteLocker: only the package's own wrapper is recognised
ImplementsWriteLockerOwn(o) == o.kind = "writeLocker"

\* WrapWriteLocker, line 20: w.(WriteLocker) succeeds for a writer with Lock and Unlock
ImplementsWriteLocker(o) == o.kind \in {"custom", "writeLocker"}

\* WrapWriteLocker(w) on the objects hp: the objects afterwards and the result
WrapWriteLocker(hp, w) ==
    IF ImplementsWriteLocker(hp[w])
    THEN [heap |-> hp, wl |-> w]
    ELSE [heap |-> Append(hp, [kind |-> "writeLocker", w |-> w]), wl |-> Len(hp) + 1]

\* writeLocker.Unwrap
Unwrap(hp, wl) == hp[wl].w

\* the writers of the tests: os.Stderr, a bytes.Buffer, a customWriteLocker
\* around the buffer, and the wrapper New makes for os.Stderr
InitSinks ==
    WrapWriteLocker(<<[kind |-> "plain", w |-> 0], [kind |-> "plain", w |-> 0],
                      [kind |-> "custom", w |-> 2]>>, 1)

\* New: no option applied yet, writer: WrapWriteLocker(os.Stderr)
InitOptVars ==
    /\ opts = 0
    /\ sinks = InitSinks.heap
    /\ writer = InitSinks.wl
    /\ wrapArg = 1
    /\ without = {}
    /\ wlArg = [p \in Procs |-> <<>>]
    /\ wArg = [p \in Procs |-> <<>>]
    /\ wResult = [p \in Procs |-> [n |-> 0, err |-> "nil"]]
    /\ wlResult = [p \in Procs |-> [n |-> 0, err |-> "nil"]]
    /\ wlWrites = [p \in Procs |-> 0]
    /\ DefaultWriters = DefaultWritersArray
    /\ handlers = [h \in Handlers |-> NoHandler]
    /\ lastOpt = [op |-> "none", h |-> 0]

(* --------------------------- specifications --------------------------- *)
InitHandleVars ==
    /\ lock = NoProc
    /\ stream = <<>>
    /\ written = <<>>
    /\ calls = 0
    /\ path = [p \in Procs |-> "none"]
    /\ record = [p \in Procs |-> FullRecord]
    /\ callId = [p \in Procs |-> 0]
    /\ idx = [p \in Procs |-> 0]
    /\ kfl = [p \in Procs |-> 0]
    /\ log = [p \in Procs |-> <<>>]
    /\ fragBytes = [p \in Procs |-> 0]
    /\ copyPos = [p \in Procs |-> 0]
    /\ writeCalls = [p \in Procs |-> 0]
    /\ sinkErr = [p \in Procs |-> "nil"]
    /\ err = [p \in Procs |-> "nil"]
    /\ gets = [p \in Procs |-> <<>>]
    /\ puts = [p \in Procs |-> <<>>]

InitPool ==
    /\ poolArg \in PoolSizes
    /\ maxMemoryBufferStorage = newLimitedPool(poolArg)
    /\ InitOptVars
    /\ currentMemoryBufferUsage = 0
    /\ idle = {}
    /\ bufCap = [b \in Bufs |-> 0]
    /\ bufData = [b \in Bufs |-> <<>>]
    /\ owner = [b \in Bufs |-> "free"]
    /\ pc = [p \in Procs |-> "idle"]
    /\ buf = [p \in Procs |-> NoBuf]
    /\ before = [p \in Procs |-> 0]
    /\ writers = <<>>
    /\ prevWriters = writers
    /\ color = FALSE
    /\ keyColoredLen = 0
    /\ InitHandleVars

\* no other caller is inside Get or Put
NoOverlap(p) == \A q \in Procs \ {p} : pc[q] \in {"idle", "held"}

\* Get and Put executed one at a time; callers may hold buffers meanwhile
NextSeq ==
    \/ \E p \in Procs : NoOverlap(p) /\ CallGet(p)
    \/ \E p \in Procs : NoOverlap(p) /\ GetPool(p)
    \/ \E p \in Procs : NoOverlap(p) /\ GetSub(p)
    \/ \E p \in Procs : NoOverlap(p) /\ GetReturn(p)
    \/ \E p \in Procs : CallerWrite(p)
    \/ \E p \in Procs : NoOverlap(p) /\ CallPut(p)
    \/ \E p \in Procs : NoOverlap(p) /\ PutLoad(p)
    \/ \E p \in Procs : NoOverlap(p) /\ PutAdd(p)
    \/ \E p \in Procs : NoOverlap(p) /\ PutPool(p)
    \/ \E p \in Procs : NoOverlap(p) /\ PutReturn(p)
    \/ PoolGC

SpecSeq == InitPool /\ [][NextSeq]_vars

\* Get and Put from concurrent goroutines, interleaved at their atomic steps
NextConc ==
    \/ \E p \in Procs : CallGet(p)
    \/ \E p \in Procs : GetPool(p)
    \/ \E p \in Procs : GetSub(p)
    \/ \E p \in Procs : GetReturn(p)
    \/ \E p \in Procs : CallerWrite(p)
    \/ \E p \in Procs : CallPut(p)
    \/ \E p \in Procs : PutLoad(p)
    \/ \E p \in Procs : PutAdd(p)
    \/ \E p \in Procs : PutPool(p)
    \/ \E p \in Procs : PutReturn(p)
    \/ PoolGC

SpecConc == InitPool /\ [][NextConc]_vars

\* a handler built with one of the given ceilings, fragment lists and colour
\* flags, before its first record
Start(sizes, configs, colors) ==
    /\ poolArg \in sizes
    /\ maxMemoryBufferStorage = newLimitedPool(poolArg)
    /\ InitOptVars
    /\ currentMemoryBufferUsage = 0
    /\ idle = {}
    /\ bufCap = [b \in Bufs |-> 0]
    /\ bufData = [b \in Bufs |-> <<>>]
    /\ owner = [b \in Bufs |-> "free"]
    /\ pc = [p \in Procs |-> "idle"]
    /\ buf = [p \in Procs |-> NoBuf]
    /\ before = [p \in Procs |-> 0]
    /\ writers \in configs
    /\ prevWriters = writers
    /\ color \in colors
    /\ keyColoredLen = 0
    /\ InitHandleVars

\* the fragments registered in the handlers of the concurrent runs
HandleWriters == {<<>>, <<testWriterWithKeyLen(<<"a">>, 1)>>}

InitHandle == Start({MaxCeiling}, HandleWriters, {FALSE})

\* one step of a Handle call of goroutine p
HandleStep(p) ==
    \/ HandleBegin(p)
    \/ GetPool(p)
    \/ GetSub(p)
    \/ HandleAcquired(p)
    \/ SerializeFails(p)
    \/ SerializeOK(p)
    \/ Measure(p)
    \/ Render(p)
    \/ Flush(p)
    \/ Lock(p)
    \/ Copy(p)
    \/ SinkWriteByte(p)
    \/ SinkWriteReturn(p)
    \/ Unlock(p)
    \/ HandleDeferredPut(p)
    \/ PutLoad(p)
    \/ PutAdd(p)
    \/ PutPool(p)
    \/ HandleReturn(p)
    \/ HandleExit(p)

\* concurrent Handle calls on handlers sharing one pool and one locked sink
NextHandle ==
    \/ \E p \in Procs : HandleStep(p)
    \/ PoolGC

SpecHandle == InitHandle /\ [][NextHandle]_vars

InitFair == Start({MaxCeiling}, {<<testWriterWithKeyLen(<<"a">>, 1)>>}, {FALSE})

\* the scheduler runs every goroutine that can take a step
FairSpecHandle ==
    InitFair /\ [][NextHandle]_vars /\ \A p \in Procs : WF_vars(HandleStep(p))

\* concurrent Handle calls on a handler whose one fragment is a level fragment
\* with a key
InitMemo == Start({MaxCeiling}, {<<NewLevelWriter(<<"L">>)>>}, BOOLEAN)

SpecMemo == InitMemo /\ [][NextHandle]_vars

\* the fragments of the rendering runs: the test fragments of
\* TestHandlerKeyFieldLength, the no-op fragment, and CommonWriters of both
\* generations with and without a key or a value, under several key stylers
Fragments ==
    { testWriterWithKeyLen(<<"a">>, 5),
      testWriterWithKeyLen(<<"b">>, 12),
      testWriterWithKeyLen(<<"c">>, 8),
      UnimplementedEntryWriter,
      NewCommonWriter(<<>>, <<"I">>, "colored"),
      NewCommonWriter(<<"T">>, <<"9">>, "colored"),
      NewCommonWriter(<<"L", "v">>, <<>>, "bang"),
      NewCommonWriter_RecordInfo(<<"K">>, <<"9">>, "colored") }

RECURSIVE Lists(_, _)
\* the sequences of at most n elements of S
Lists(S, n) ==
    IF n = 0 THEN {<<>>}
    ELSE LET R == Lists(S, n - 1) IN
         R \cup {Append(l, x) : l \in {r \in R : Len(r) = n - 1}, x \in S}

RenderWriters == Lists(Fragments, MaxWriters)

InitRender == Start({MaxCeiling}, RenderWriters, BOOLEAN)

\* records handled one after another by one goroutine
NextRender ==
    \/ HandleStep(1)
    \/ PoolGC

SpecRender == InitRender /\ [][NextRender]_vars

\* the default fragments of new.go that render a field of the record
DefaultFragments ==
    {DefaultLevelWriter, DefaultMessageWriter, DefaultTimeWriter,
     DefaultFunctionWrtier, DefaultFileLineWriter}

\* handlers made of default fragments, given records with and without a time
\* and a caller frame
InitDefaults == Start({MaxCeiling}, Lists(DefaultFragments, MaxWriters - 1), BOOLEAN)

SpecDefaults == InitDefaults /\ [][NextRender]_vars

(* ----------------------- direct use of the sink ----------------------- *)
\* the byte slices handed to Write
Slices == UNION {[1..n -> {"x", "y"}] : n \in 1..MaxLen}

\* writeLocker.Lock: wl.mu.Lock()
WriteLocker_Lock(p) ==
    /\ pc[p] = "idle"
    /\ lock = NoProc
    /\ lock' = p
    /\ pc' = [pc EXCEPT ![p] = "wlHeld"]
    /\ wlWrites' = [wlWrites EXCEPT ![p] = 0]
    /\ UNCHANGED <<poolVars, buf, before, writers, color, keyColoredLen, optVars>>
    /\ UNCHANGED <<wlArg, wArg, wResult, wlResult, stream, written, handleVars>>

\* the holder of the lock calls writeLocker.Write(data)
CallWrite(p) ==
    /\ pc[p] = "wlHeld"
    /\ wlWrites[p] < MaxCalls
    /\ \E data \in Slices : wlArg' = [wlArg EXCEPT ![p] = data]
    /\ pc' = [pc EXCEPT ![p] = "wlWrite"]
    /\ UNCHANGED <<poolVars, buf, before, writers, color, keyColoredLen, optVars>>
    /\ UNCHANGED <<wArg, wResult, wlResult, wlWrites, sinkVars, handleVars>>

\* variant of writeLocker.Write: Write takes the wrapper's mutex for the
\* duration of the call
WriteLocker_WriteLocking(p) ==
    /\ pc[p] = "wlWrite"
    /\ lock = NoProc
    /\ \E r \in SinkResults(Len(wlArg[p])) :
        /\ wArg' = [wArg EXCEPT ![p] = wlArg[p]]
        /\ wResult' = [wResult EXCEPT ![p] = r]
        /\ wlResult' = [wlResult EXCEPT ![p] = r]
    /\ wlWrites' = [wlWrites EXCEPT ![p] = @ + 1]
    /\ pc' = [pc EXCEPT ![p] = "wlHeld"]
    /\ UNCHANGED <<poolVars, buf, before, writers, color, keyColoredLen, optVars>>
    /\ UNCHANGED <<wlArg, sinkVars, handleVars>>

\* writeLocker.Write: return wl.w.Write(p)
WriteLocker_Write(p) ==
    /\ pc[p] = "wlWrite"
    /\ \E r \in SinkResults(Len(wlArg[p])) :
        /\ wArg' = [wArg EXCEPT ![p] = wlArg[p]]
        /\ wResult' = [wResult EXCEPT ![p] = r]
        /\ wlResult' = [wlResult EXCEPT ![p] = r]
    /\ wlWrites' = [wlWrites EXCEPT ![p] = @ + 1]
    /\ pc' = [pc EXCEPT ![p] = "wlHeld"]
    /\ UNCHANGED <<poolVars, buf, before, writers, color, keyColoredLen, optVars>>
    /\ UNCHANGED <<wlArg, sinkVars, handleVars>>

\* writeLocker.Unlock: wl.mu.Unlock()
WriteLocker_Unlock(p) ==
    /\ pc[p] = "wlHeld"
    /\ lock' = NoProc
    /\ pc' = [pc EXCEPT ![p] = "idle"]
    /\ UNCHANGED <<poolVars, buf, before, confVars, stream, written, handleVars>>

\* goroutines that use the wrapper made by WrapWriteLocker directly
NextLocker ==
    \/ \E p \in Procs : WriteLocker_Lock(p)
    \/ \E p \in Procs : CallWrite(p)
    \/ \E p \in Procs : WriteLocker_Write(p)
    \/ \E p \in Procs : WriteLocker_Unlock(p)

InitLocker == Start({MaxCeiling}, {<<>>}, {FALSE})

SpecLocker == InitLocker /\ [][NextLocker]_vars

(* ------------------------------ options ------------------------------- *)
\* the sizes handed to WithPoolSize
PoolArgs == (0 - MaxCeiling)..MaxCeiling

\* option.go: WithPoolSize(maxSize) gives the handler a new pool
WithPoolSize(n) ==
    /\ \A p \in Procs : pc[p] = "idle"
    /\ opts < MaxOpts
    /\ opts' = opts + 1
    /\ poolArg' = n
    /\ maxMemoryBufferStorage' = newLimitedPool(n)
    /\ currentMemoryBufferUsage' = 0
    /\ idle' = {}
    /\ bufCap' = [b \in Bufs |-> 0]
    /\ bufData' = [b \in Bufs |-> <<>>]
    /\ owner' = [b \in Bufs |-> "free"]
    /\ UNCHANGED <<callVars, writers, color, keyColoredLen, sinks, writer, wrapArg, without, prevWriters,
                   pkgVars, lockerVars, sinkVars, handleVars>>

\* option.go: WithOutput(w)
WithOutput(w) ==
    /\ \A p \in Procs : pc[p] = "idle"
    /\ opts < MaxOpts
    /\ opts' = opts + 1
    /\ sinks' = WrapWriteLocker(sinks, w).heap
    /\ writer' = WrapWriteLocker(sinks, w).wl
    /\ wrapArg' = w
    /\ UNCHANGED <<poolVars, callVars, writers, color, keyColoredLen, poolArg, without, prevWriters,
                   pkgVars, lockerVars, sinkVars, handleVars>>

\* the zero value of EntryWriter
NilWriter == Frag("nil", <<>>, <<>>, "plain", "plain", 0)

\* slices.DeleteFunc(h.writers, func(w) { return w == x }) on the slice of the
\* first n elements of the backing array arr: the elements kept move to the
\* front; the elements behind them are zeroed (clear) or left as they were,
\* depending on the Go release
DeleteFunc(arr, n, x, clear) ==
    LET kept == SelectSeq(SubSeq(arr, 1, n), LAMBDA w : w # x)
        tail == IF clear THEN [i \in 1..(n - Len(kept)) |-> NilWriter]
                ELSE SubSeq(arr, Len(kept) + 1, n)
    IN  [arr |-> kept \o tail \o SubSeq(arr, n + 1, Len(arr)), len |-> Len(kept)]

RECURSIVE WithoutWritersRun(_, _, _, _, _)
\* option.go: the loop of WithoutWriters from position i on. range walks the
\* m positions of the slice it started with and reads each element when it
\* gets there, from the backing array the deletions have already shifted
WithoutWritersRun(arr, n, i, m, clear) ==
    IF i > m THEN [arr |-> arr, len |-> n]
    ELSE LET d == DeleteFunc(arr, n, arr[i], clear)
         IN  WithoutWritersRun(d.arr, d.len, i + 1, m, clear)

\* option.go: h.writers after the loop of WithoutWriters on a slice that
\* fills its backing array
WithoutWritersLoop(arr, n, i, clear) ==
    LET r == WithoutWritersRun(arr, n, i, Len(arr), clear)
    IN  SubSeq(r.arr, 1, r.len)

\* option.go: WithoutWriters(writers...); the loop never reads the argument
WithoutWriters(ws) ==
    /\ \A p \in Procs : pc[p] = "idle"
    /\ opts < MaxOpts
    /\ opts' = opts + 1
    /\ \E clear \in BOOLEAN :
        writers' = WithoutWritersLoop(writers, Len(writers), 1, clear)
    /\ without' = ws
    /\ prevWriters' = writers
    /\ UNCHANGED <<poolVars, callVars, color, keyColoredLen, poolArg, sinks, writer, wrapArg,
                   pkgVars, lockerVars, sinkVars, handleVars>>

\* new.go: New before its options are applied, with a list of default fragments
InitOptions == Start({defaultLimitedPoolSize}, Lists(DefaultFragments, MaxWriters), BOOLEAN)

\* New applies its options one after another
NextOptions ==
    \/ \E n \in PoolArgs : WithPoolSize(n)
    \/ \E w \in 1..Len(sinks) : WithOutput(w)
    \/ \E ws \in SUBSET DefaultFragments : WithoutWriters(ws)

SpecOptions == InitOptions /\ [][NextOptions]_vars

(* ------------------------ options of New's handlers ------------------- *)
\* the fragments handed to ReplaceWriter
ReplaceArgs == {DefaultLevelWriter, DefaultTimeWriter, testWriterWithKeyLen(<<"a">>, 1)}

\* new.go: New() makes handler h with writers: DefaultWriters[:]
New(h) ==
    /\ handlers[h].state = "none"
    /\ handlers' = [handlers EXCEPT ![h] =
                     [state |-> "shared", len |-> Len(DefaultWriters), arr |-> <<>>, n |-> 0]]
    /\ lastOpt' = [op |-> "New", h |-> h]
    /\ UNCHANGED DefaultWriters
    /\ UNCHANGED <<poolVars, callVars, writers, color, keyColoredLen>>
    /\ UNCHANGED <<opts, poolArg, sinks, writer, wrapArg, without, prevWriters>>
    /\ UNCHANGED <<lockerVars, sinkVars, handleVars>>

\* handler h with backing array arr and length n in its writers slice
Stored(h, arr, n) ==
    IF handlers[h].state = "shared"
    THEN /\ DefaultWriters' = arr
         /\ handlers' = [handlers EXCEPT ![h].len = n, ![h].n = @ + 1]
    ELSE /\ UNCHANGED DefaultWriters
         /\ handlers' = [handlers EXCEPT ![h].arr = arr, ![h].len = n, ![h].n = @ + 1]

\* option.go: ReplaceWriter(oldWriter, newWriter) applied to handler h: the
\* first element equal to oldWriter is overwritten in place; without one,
\* append writes behind the slice when the backing array has room and
\* allocates a new array otherwise
ReplaceWriter(h, oldWriter, newWriter) ==
    /\ handlers[h].state # "none"
    /\ handlers[h].n < MaxOpts
    /\ LET arr == Backing(handlers, DefaultWriters, h)
           n == handlers[h].len
           found == {i \in 1..n : arr[i] = oldWriter}
       IN  IF found # {}
           THEN LET i == CHOOSE x \in found : \A y \in found : x <= y
                IN  Stored(h, [arr EXCEPT ![i] = newWriter], n)
           ELSE IF n < Len(arr)
           THEN Stored(h, [arr EXCEPT ![n + 1] = newWriter], n + 1)
           ELSE /\ handlers' = [handlers EXCEPT ![h] =
                                 [state |-> "own", len |-> n + 1,
                                  arr |-> Append(arr, newWriter), n |-> @.n + 1]]
                /\ UNCHANGED DefaultWriters
    /\ lastOpt' = [op |-> "ReplaceWriter", h |-> h]
    /\ UNCHANGED <<poolVars, callVars, writers, color, keyColoredLen>>
    /\ UNCHANGED <<opts, poolArg, sinks, writer, wrapArg, without, prevWriters>>
    /\ UNCHANGED <<lockerVars, sinkVars, handleVars>>

\* option.go: WithoutWriters(writers...) applied to handler h; the deletions
\* happen in the backing array of h.writers
Handler_WithoutWriters(h) ==
    /\ handlers[h].state # "none"
    /\ handlers[h].n < MaxOpts
    /\ \E clear \in BOOLEAN :
        LET r == WithoutWritersRun(Backing(handlers, DefaultWriters, h),
                                   handlers[h].len, 1, handlers[h].len, clear)
        IN  Stored(h, r.arr, r.len)
    /\ lastOpt' = [op |-> "WithoutWriters", h |-> h]
    /\ UNCHANGED <<poolVars, callVars, writers, color, keyColoredLen>>
    /\ UNCHANGED <<opts, poolArg, sinks, writer, wrapArg, without, prevWriters>>
    /\ UNCHANGED <<lockerVars, sinkVars, handleVars>>

\* handlers are made and edited one after another
NextNew ==
    \/ \E h \in Handlers : New(h)
    \/ \E h \in Handlers : \E o, w \in ReplaceArgs : ReplaceWriter(h, o, w)
    \/ \E h \in Handlers : Handler_WithoutWriters(h)

InitNew == Start({defaultLimitedPoolSize}, {<<>>}, {FALSE})

SpecNew == InitNew /\ [][NextNew]_vars

(* ------------------------------- claims ------------------------------- *)
\* C1: with Get and Put executed one at a time, the sum of the capacities of
\* the buffers idle in the pool never exceeds maxMemoryBufferStorage.
C1_IdleWithinCeiling == IdleCapacity <= maxMemoryBufferStorage

\* a Put has just dropped a non-empty buffer while the pool is filled to the ceiling
C1_Witness ==
    \E p \in Procs :
        /\ pc[p] = "putDone"
        /\ owner[buf[p]] = "dropped"
        /\ bufCap[buf[p]] > 0
        /\ bufCap[buf[p]] <= maxMemoryBufferStorage
        /\ IdleCapacity = maxMemoryBufferStorage

\* C2: under concurrent Get and Put the tracked usage and the sum of the
\* capacities of the idle buffers never exceed maxMemoryBufferStorage.
C2_ConcurrentWithinCeiling ==
    /\ currentMemoryBufferUsage <= maxMemoryBufferStorage
    /\ IdleCapacity <= maxMemoryBufferStorage

\* C3: with concurrent Handle calls on one shared sink, the bytes the sink
\* receives form one contiguous range per call, each range is that call's
\* rendered buffer, and a range is incomplete only while its write is in progress.
C3_NoInterleaving ==
    /\ \A i, j, l \in 1..Len(stream) :
        (i < j /\ j < l /\ stream[i].id = stream[l].id) => stream[j].id = stream[i].id
    /\ \A i \in 1..Len(stream) : \E k \in 1..Len(written) : written[k].id = stream[i].id
    /\ \A k \in 1..Len(written) :
        LET pos == {i \in 1..Len(stream) : stream[i].id = written[k].id}
            first == CHOOSE i \in pos : \A h \in pos : i <= h
            writing == \E p \in Procs : pc[p] = "write" /\ callId[p] = written[k].id
        IN  /\ Cardinality(pos) <= Len(written[k].data)
            /\ \A i \in pos : stream[i].ch = written[k].data[i - first + 1]
            /\ ~writing => Cardinality(pos) = Len(written[k].data)

C3_Witness ==
    \E p, q \in Procs :
        /\ pc[q] = "returned" /\ writeCalls[q] = 1 /\ Len(stream) >= 3
        /\ pc[p] \in {"unlock", "deferPut"} /\ writeCalls[p] = 1
        /\ Len(written) = 2 /\ Len(written[1].data) >= 2
        /\ stream[1].id = callId[p] /\ callId[p] > callId[q]

\* C4: in one Handle call KeyLen is invoked on every fragment, in registration
\* order, before any Write; Write is invoked in registration order and always
\* receives the maximum of the KeyLen values of all registered fragments.
C4_TwoPassMaxWidth ==
    \A p \in Procs :
        LET n == Len(writers)
            widths == {KeyLen(writers[j], color) : j \in 1..n}
            widest == CHOOSE m \in widths : \A x \in widths : x <= m
        IN  /\ Len(log[p]) <= 2 * n
            /\ \A i \in 1..Len(log[p]) :
                IF i <= n
                THEN log[p][i].op = "KeyLen" /\ log[p][i].i = i
                ELSE /\ log[p][i].op = "Write"
                     /\ log[p][i].i = i - n
                     /\ log[p][i].n = widest

C4_Witness ==
    /\ writers = <<testWriterWithKeyLen(<<"a">>, 5), testWriterWithKeyLen(<<"b">>, 12),
                   testWriterWithKeyLen(<<"c">>, 8)>>
    /\ pc[1] = "returned"
    /\ Len(log[1]) = 6
    /\ \A i \in 4..6 : log[1][i].n = 12

\* C5: the bytes a CommonWriter writes for its key in Write are as many as
\* its KeyLen returned under the same color flag.
C5_KeyLenMatchesWrite ==
    \A p \in Procs :
        \A i \in 1..Len(log[p]) :
            (log[p][i].op = "Write" /\ IsCommon(writers[log[p][i].i]))
                => log[p][i].keyBytes = log[p][log[p][i].i].n

\* C6: when the buffer is empty after the render pass, Handle returns no
\* error and no Write call reaches the sink.
C6_EmptyRenderNoWrite ==
    \A p \in Procs :
        (pc[p] = "returned" /\ path[p] = "pretty"
            /\ Len(log[p]) = 2 * Len(writers) /\ fragBytes[p] = 0)
                => (err[p] = "nil" /\ writeCalls[p] = 0)

C6_Witness ==
    /\ pc[1] = "returned" /\ path[1] = "pretty"
    /\ writers = <<UnimplementedEntryWriter, UnimplementedEntryWriter>>
    /\ Len(log[1]) = 4 /\ fragBytes[1] = 0
    /\ writeCalls[1] = 0 /\ err[1] = "nil" /\ stream = <<>>

\* C7: a Handle call takes one buffer from the pool and puts that same
\* buffer back exactly once before it returns, on every exit path.
C7_OneGetOnePut ==
    \A p \in Procs :
        /\ Len(gets[p]) <= 1
        /\ Len(puts[p]) <= 1
        /\ puts[p] # <<>> => puts[p] = gets[p]
        /\ pc[p] = "returned" => (Len(gets[p]) = 1 /\ puts[p] = gets[p])

C7_Witness ==
    \E p, q \in Procs :
        /\ pc[p] = "returned" /\ err[p] = "ESerialize" /\ Len(puts[p]) = 1
        /\ pc[q] = "returned" /\ sinkErr[q] \in SinkErrors /\ puts[q] = gets[q]
        /\ Len(puts[q]) = 1

\* C8: an error of the sink's Write is the error Handle returns, and a
\* Handle call makes at most one Write call on the sink.
C8_SinkErrorReturnedOnce ==
    \A p \in Procs :
        /\ writeCalls[p] <= 1
        /\ (pc[p] = "returned" /\ sinkErr[p] # "nil") => err[p] = sinkErr[p]

C8_Witness ==
    \E p \in Procs :
        /\ pc[p] = "returned" /\ sinkErr[p] = "ENOSPC" /\ err[p] = "ENOSPC"
        /\ writeCalls[p] = 1 /\ Len(stream) = Len(written[1].data)

\* C9: the sink lock is held only by a Handle call in its flush step, and
\* under fair scheduling every Handle call that started returns.
C9_LockReleasedAndCallsReturn ==
    /\ [](lock # NoProc => pc[lock] \in {"copy", "write", "unlock"})
    /\ \A p \in Procs : (pc[p] # "idle") ~> (pc[p] = "returned")

C9_Witness ==
    \E p, q \in Procs :
        /\ pc[p] = "returned" /\ sinkErr[p] \in SinkErrors
        /\ lock = q /\ pc[q] = "write"

\* C10 (as stated): right after Put of a buffer whose capacity is at most the
\* ceiling, tracked usage is exactly that capacity higher than before the call.
C10_PutAddsCapacity ==
    \A p \in Procs :
        (pc[p] = "putDone" /\ bufCap[buf[p]] <= maxMemoryBufferStorage)
            => currentMemoryBufferUsage = before[p] + bufCap[buf[p]]

\* C10 (amended): right after Put of a buffer whose capacity fits under the
\* ceiling together with the usage tracked before the call, tracked usage is
\* exactly that capacity higher than before the call.
C10_PutAddsCapacityWhenItFits ==
    \A p \in Procs :
        (pc[p] = "putDone" /\ before[p] + bufCap[buf[p]] <= maxMemoryBufferStorage)
            => currentMemoryBufferUsage = before[p] + bufCap[buf[p]]

\* a non-empty buffer has just been kept by a pool that already held idle buffers
C10_Witness ==
    \E p \in Procs :
        /\ pc[p] = "putDone"
        /\ owner[buf[p]] = "pool"
        /\ bufCap[buf[p]] > 0
        /\ before[p] > 0
        /\ idle \ {buf[p]} # {}
        /\ NoOverlap(p)

\* C11: with no overlapping calls, a Get that hands out a pooled buffer lowers
\* the tracked usage by exactly that buffer's capacity (without wrapping), and
\* a Get that hands out a new buffer, whose capacity is 0, leaves it unchanged.
C11_GetSubtractsCapacity ==
    [][\A p \in Procs :
        /\ (pc[p] = "getPool" /\ pc'[p] = "getSub" /\ buf'[p] \notin idle)
                => bufCap'[buf'[p]] = 0
        /\ (pc[p] = "getSub" /\ pc'[p] = "getDone")
                => /\ currentMemoryBufferUsage >= bufCap[buf[p]]
                   /\ currentMemoryBufferUsage' = currentMemoryBufferUsage - bufCap[buf[p]]
                   /\ currentMemoryBufferUsage' = before[p] - bufCap[buf[p]]]_vars

\* a pooled buffer with capacity has just been handed out
C11_Witness ==
    \E p \in Procs :
        /\ pc[p] = "getDone"
        /\ bufCap[buf[p]] > 0
        /\ before[p] > bufCap[buf[p]]
        /\ currentMemoryBufferUsage = before[p] - bufCap[buf[p]]

\* C12: Get always returns a buffer, and the buffer is empty, whether it is
\* new or comes from the pool, whatever was released or dropped before.
C12_GetReturnsEmptyBuffer ==
    \A p \in Procs :
        /\ pc[p] = "getPool" => (idle # {} \/ \E b \in Bufs : owner[b] = "free")
        /\ pc[p] \in {"getSub", "getDone"} => (buf[p] \in Bufs /\ Len(bufData[buf[p]]) = 0)

\* a pooled buffer that was written to is handed out while another Put dropped its buffer
C12_Witness ==
    \E p, q \in Procs :
        /\ pc[p] = "getDone" /\ bufCap[buf[p]] > 0 /\ Len(bufData[buf[p]]) = 0
        /\ pc[q] = "putDone" /\ owner[buf[q]] = "dropped"

\* C13: the ceiling of a pool made by newLimitedPool(n), directly or through
\* WithPoolSize(n), is n when n > 0 and 16*1024*1024 when n <= 0.
C13_EffectiveCeiling ==
    maxMemoryBufferStorage = IF poolArg > 0 THEN poolArg ELSE 16777216

\* WithPoolSize(0) has been applied
C13_Witness ==
    /\ opts > 0
    /\ poolArg = 0
    /\ maxMemoryBufferStorage = 16777216

\* C14: WrapWriteLocker returns its argument itself when the argument has
\* Write, Lock and Unlock (a wrapper made earlier, a custom locker), so wrapping
\* twice gives the instance of wrapping once; for a plain writer it returns a
\* new wrapper whose Unwrap is the argument.
C14_WrapKeepsLockers ==
    /\ IF sinks[wrapArg].kind \in {"custom", "writeLocker"}
       THEN writer = wrapArg
       ELSE /\ writer = Len(sinks)
            /\ writer # wrapArg
            /\ sinks[writer].kind = "writeLocker"
            /\ Unwrap(sinks, writer) = wrapArg
    /\ \A w \in 1..Len(sinks) :
        LET once == WrapWriteLocker(sinks, w)
            twice == WrapWriteLocker(once.heap, once.wl)
        IN  twice.wl = once.wl /\ twice.heap = once.heap

\* a wrapper made by an earlier WithOutput for the buffer has been wrapped again
C14_Witness ==
    /\ opts = 2
    /\ wrapArg > Len(InitSinks.heap)
    /\ sinks[wrapArg].kind = "writeLocker"
    /\ Unwrap(sinks, wrapArg) = 2
    /\ writer = wrapArg

C16_LevelSpaceMessage ==
    \A k \in 1..Len(written) :
        (writers = <<DefaultLevelWriter, DefaultMessageWriter>> /\ written[k].rec[1] = "pretty")
            => written[k].data = CommonWriter_Value(DefaultLevelWriter, color) \o <<" ">>
                                    \o CommonWriter_Value(DefaultMessageWriter, color)

C18_MissingInputWritesNothing ==
    \A p \in Procs :
        \A i \in 1..Len(log[p]) :
            LET e == log[p][i]
                w == writers[e.i]
            IN  (/\ e.op = "Write"
                 /\ \/ w.type = "time" /\ ~record[p].time
                    \/ w.type \in {"function", "fileLine"} /\ ~record[p].frame)
                    => e.wrote = 0

\* C19: after WithoutWriters(ws...) the fragment list is the list before the
\* call without the fragments listed in ws, the others in their order.
C19_SetDifference ==
    writers = SelectSeq(prevWriters, LAMBDA w : w \notin without)

\* C20: no step of a Handle call changes a field of a registered fragment, and
\* no two goroutines are about to store into the same fragment field.
C20_FragmentFieldsUntouched ==
    [][/\ keyColoredLen' = keyColoredLen
       /\ \A p, q \in Procs :
            (p # q /\ pc'[p] = "measureStore") => pc'[q] # "measureStore"]_vars

\* C21: every buffer is in exactly one place: idle in the pool (held by no
\* caller), checked out by exactly one caller, or discarded / not allocated
\* (held by no caller, not in the pool); so Get never hands out a buffer that
\* another caller still holds.
C21_OnePlacePerBuffer ==
    \A b \in Bufs :
        /\ Cardinality(Holders(b)) <= 1
        /\ (b \in idle) <=> (owner[b] = "pool")
        /\ (b \in idle) => Holders(b) = {}
        /\ (owner[b] = "out") <=> (Cardinality(Holders(b)) = 1)
        /\ (owner[b] \in {"dropped", "free"}) => Holders(b) = {}

\* a Handle call renders into the buffer that another call, still returning
\* from its Put, has just released to the pool
C21_Witness ==
    \E p, q \in Procs :
        /\ p # q
        /\ pc[p] = "putDone" /\ path[p] # "none"
        /\ buf[q] = buf[p]
        /\ pc[q] = "copy"
        /\ Len(gets[q]) = 1 /\ gets[q][1] = puts[p][1]

\* C22: whenever no Get and no Put is in progress, the tracked usage equals
\* the sum of the capacities of the buffers idle in the pool.
C22_UsageIsIdleCapacity ==
    (\A p \in Procs : pc[p] \in {"idle", "held"})
        => currentMemoryBufferUsage = IdleCapacity

\* C23: right after Put the buffer is empty; it has been kept, and the tracked
\* usage raised by its capacity, exactly when the usage before the call plus
\* its capacity is at most the ceiling (equality keeps); otherwise, and so for
\* every buffer larger than the ceiling, it has been dropped with the tracked
\* usage as before and the buffer not in the pool.
C23_PutKeepsIffItFits ==
    \A p \in Procs :
        (pc[p] = "putDone" /\ path[p] = "none" /\ NoOverlap(p)) =>
            LET b == buf[p]
                fits == before[p] + bufCap[b] <= maxMemoryBufferStorage
            IN  /\ bufData[b] = <<>>
                /\ fits => /\ owner[b] = "pool" /\ b \in idle
                           /\ currentMemoryBufferUsage = before[p] + bufCap[b]
                /\ ~fits => /\ owner[b] = "dropped" /\ b \notin idle
                            /\ currentMemoryBufferUsage = before[p]
                /\ bufCap[b] > maxMemoryBufferStorage => owner[b] = "dropped"

\* a written buffer has been kept that fills a pool holding another idle
\* buffer exactly to the ceiling
C23_Witness ==
    \E p \in Procs :
        /\ pc[p] = "putDone" /\ NoOverlap(p)
        /\ owner[buf[p]] = "pool"
        /\ before[p] > 0 /\ bufCap[buf[p]] > 0
        /\ before[p] + bufCap[buf[p]] = maxMemoryBufferStorage
        /\ currentMemoryBufferUsage = maxMemoryBufferStorage

\* C24: KeyLen of a CommonWriter is 0 for an empty key; for a non-empty key
\* it is the length of the styled key when color is off and the length of the
\* plain key when color is on.
C24_KeyLenStyledWhenPlain ==
    \A p \in Procs :
        \A i \in 1..Len(log[p]) :
            LET e == log[p][i]
                w == writers[e.i]
            IN  (e.op = "KeyLen" /\ IsCommon(w)) =>
                    e.n = IF w.key = <<>> THEN 0
                          ELSE IF ~color THEN Len(Style(w.keyStyler, w.key))
                          ELSE Len(w.key)

C26_WriteDoesNotLock ==
    \A p \in Procs :
        /\ (pc[p] = "wlWrite" /\ lock = p) => ENABLED WriteLocker_Write(p)
        /\ pc[p] = "wlHeld" =>
            /\ wArg[p] = wlArg[p]
            /\ wlResult[p] = wResult[p]

\* holding the lock, a goroutine has made a second Write call, which the
\* underlying writer ended with an error after a short write
C26_Witness ==
    \E p \in Procs :
        /\ lock = p /\ pc[p] = "wlHeld"
        /\ wlWrites[p] = 2
        /\ Len(wlArg[p]) = 2
        /\ wlResult[p] = [n |-> 1, err |-> "EIO"]

\* C27: in the render pass the count KeyFieldLength - len(key as written) + 1
\* of every CommonWriter fragment is at least 0, and no Handle call ends in a
\* panic.
C27_PadNeverNegative ==
    \A p \in Procs :
        /\ err[p] # "panic"
        /\ \A i \in 1..Len(log[p]) :
            LET e == log[p][i]
                w == writers[e.i]
            IN  (e.op = "Write" /\ IsCommon(w)) =>
                    e.n - Len(CommonWriter_Key(w, color)) + 1 >= 0

\* C28: while a Handle call waits for the sink, copies its buffer to it or
\* still holds the sink's lock, the buffer is checked out, not in the pool and
\* held by no other call, and during the Write its content is the argument of
\* that Write; once the deferred Put runs, the copy is over and the call no
\* longer holds the lock.
C28_CopyDoneBeforePut ==
    \A p \in Procs :
        path[p] # "none" =>
            /\ pc[p] \in {"lock", "copy", "write", "unlock"} =>
                /\ owner[buf[p]] = "out"
                /\ buf[p] \notin idle
                /\ \A q \in Procs \ {p} : ~Holds(q, buf[p])
            /\ pc[p] = "write" =>
                \E i \in 1..Len(written) :
                    written[i].id = callId[p] /\ written[i].data = bufData[buf[p]]
            /\ pc[p] \in {"deferPut", "putLoad", "putAdd", "putPool", "putDone"} =>
                /\ lock # p
                /\ copyPos[p] = 0

\* while one call is in the middle of its copy and holds the lock, a later
\* call has rendered into another buffer and waits for the lock
C28_Witness ==
    \E p, q \in Procs :
        /\ pc[p] = "write" /\ copyPos[p] > 0 /\ lock = p
        /\ pc[q] = "lock"
        /\ buf[q] # buf[p]
        /\ Len(bufData[buf[q]]) > 0
        /\ callId[q] > callId[p]

\* C29: a Handle call starts rendering with an empty buffer, whatever call
\* used the buffer before, and what it hands to the sink is exactly what it
\* rendered itself: the serialized record, or the bytes its fragments appended.
C29_NoBytesOfOtherEvents ==
    \A p \in Procs :
        path[p] # "none" =>
            /\ pc[p] \in {"getDone", "serialize", "measure", "measureStore"} =>
                    bufData[buf[p]] = <<>>
            /\ (pc[p] = "render" /\ fragBytes[p] = 0) => bufData[buf[p]] = <<>>
            /\ \A k \in 1..Len(written) :
                written[k].id = callId[p] =>
                    IF path[p] = "json" THEN written[k].data = JSONText
                    ELSE Len(written[k].data) = fragBytes[p]

\* a call writes a one-byte record from the buffer in which an earlier call
\* serialized a longer record that the sink took only in part, with an error
C29_Witness ==
    \E p, q \in Procs :
        /\ pc[q] = "returned" /\ path[q] = "json" /\ err[q] = "EIO"
        /\ Len(puts[q]) = 1 /\ Len(gets[p]) = 1 /\ gets[p][1] = puts[q][1]
        /\ path[p] = "pretty" /\ pc[p] = "write"
        /\ callId[p] > callId[q]
        /\ bufData[buf[p]] = <<"a">>
        /\ written[Len(written)].data = <<"a">>
        /\ Len(written[1].data) > 1

\* C30: ReplaceWriter or WithoutWriters applied to one handler made by New
\* leaves DefaultWriters and the writers of every other handler as they were,
\* so a handler made later starts with the original default fragments.
C30_OnlyThatHandler ==
    [][lastOpt'.op \in {"ReplaceWriter", "WithoutWriters"} =>
        /\ DefaultWriters' = DefaultWriters
        /\ DefaultWriters' = DefaultWritersArray
        /\ \A g \in Handlers \ {lastOpt'.h} :
            HandlerWriters(handlers', DefaultWriters', g)
                = HandlerWriters(handlers, DefaultWriters, g)]_vars

====
